---- MODULE Spec2Model ----
(***************************************************************************)
(* Model of the run orchestration store of the veridebugger client         *)
(* (src/src/store/optimizationAgentStore.ts) and of the WebSocket wrapper  *)
(* it drives (OptimizationStream, src/src/api/backendApi.ts); of the       *)
(* waveform store and the WaveformSignal component; of the ChatPanel       *)
(* component over the agent chat log; and of the legacy chat store.        *)
(*                                                                         *)
(* The server side of a stream is the environment: any frame of Frames can *)
(* arrive on a socket, in any order, and the socket may report an error or *)
(* close at any time.  The stream's handlers stay attached to the socket   *)
(* after close(), so the model also hands frames to a socket between the   *)
(* client's close() and the close event.                                   *)
(*                                                                         *)
(* JavaScript values are encoded so that every field keeps one TLA+ type:  *)
(*   - optional numbers are integers, with UndefNum for `undefined` and    *)
(*     NullNum for `null`;                                                 *)
(*   - optional strings and booleans are strings, with UndefStr for        *)
(*     `undefined` and NullStr for `null`; "true" / "false" are the        *)
(*     booleans;                                                           *)
(*   - an optional array is a sequence, with UndefSeq for `undefined`.     *)
(***************************************************************************)
EXTENDS Integers, Sequences, FiniteSets, TLC

\* ------------------------------------------------------------------ bounds
\* runs created or being created (streams constructed plus create-run requests
\* in flight) in one behaviour
MaxRuns == 2
\* the same bound in the specification of one run and its stream (SpecRun)
MaxSoloRuns == 1
\* highest iteration number a stream step carries
MaxIter == 3

\* ------------------------------------------------------- JavaScript values
UndefNum == -1
NullNum == -2
UndefStr == "undefined"
NullStr == "null"
UndefSeq == <<UndefNum>>

\* `v ? a : b` and `v || w` on a string or boolean field
TruthyStr(v) == v \notin {UndefStr, NullStr, "", "false"}
\* `v || w` on an array field: every array, the empty one included, is truthy
TruthySeq(v) == v # UndefSeq

\* ------------------------------------------------------------------ inputs
Modes == {"optimize", "testgen"}
\* lut_history as the server builds it: the metric of every synthesis so far,
\* one per iteration (45, 42, 39, ...)
SeriesSoFar(n) == [k \in 1..n |-> 48 - 3 * k]

\* The objects JSON.parse can hand to ws.onmessage. On the wire every field of
\* StreamStep is optional, so the frames are:
\*   a full step, every field of the StreamStep interface present: before the
\*   first synthesis lut_count is null and lut_history is empty, after it they
\*   hold the latest metric and the series so far;
FullStep(i, synthesized, done) ==
  [iteration |-> i, code |-> "c1",
   lut_count |-> IF synthesized THEN SeriesSoFar(i)[i] ELSE NullNum,
   lut_history |-> IF synthesized THEN SeriesSoFar(i) ELSE <<>>,
   reasoning |-> "r1", sim_passed |-> "true", error |-> NullStr, done |-> done]

FullSteps ==
  {FullStep(i, s, d) : i \in 1..MaxIter, s \in BOOLEAN, d \in {"false", "true"}}

\*   a sparse step, which carries its iteration and omits what did not change;
SparseSteps ==
  [iteration : 1..MaxIter, code : {UndefStr}, lut_count : {UndefNum},
   lut_history : {UndefSeq}, reasoning : {UndefStr, ""}, sim_passed : {UndefStr},
   error : {UndefStr}, done : {"false"}]

\*   a terminal step that reports a failure of the remote run;
FailedSteps ==
  [iteration : {MaxIter}, code : {UndefStr}, lut_count : {UndefNum},
   lut_history : {UndefSeq}, reasoning : {UndefStr}, sim_passed : {UndefStr},
   error : {"boom"}, done : {UndefStr, "true"}]

\*   the last frame the documented server sends, {"done": true, "status": "completed"}
TrailingDone ==
  [iteration |-> UndefNum, code |-> UndefStr, lut_count |-> UndefNum,
   lut_history |-> UndefSeq, reasoning |-> UndefStr, sim_passed |-> UndefStr,
   error |-> UndefStr, done |-> "true"]

Steps == FullSteps \cup SparseSteps \cup FailedSteps \cup {TrailingDone}

\* the frame that is not JSON
Garbage == [garbage |-> TRUE]
Frames == Steps \cup {Garbage}

\* ------------------------------------------------------------------- state
VARIABLES
  currentRun,    \* OptimizationRun | null
  isStarting,
  isConnected,
  error,         \* the store-level error string | null
  _stream,       \* index into streams of the stored OptimizationStream, 0 = null
  streams,       \* every OptimizationStream constructed so far, in order
  pending,       \* create-run requests in flight, per mode
  lastEvent,     \* the handler that ran last (see Event)
  waveform,      \* useWaveformStore: the WaveformState
  vcdPending,    \* runWithVcd requests in flight, in the order they were issued
  props,         \* the props WaveformSignal is rendered with
  rendered,      \* what WaveformSignal rendered for props
  messages,      \* useChatStore (agent reasoning): the chat log
  lastIterationRef,  \* ChatPanel: useRef<number>(-1)
  lastStatusRef,     \* ChatPanel: useRef<string | null>(null)
  deps,          \* ChatPanel: not mounted, or what its effect last ran with (see Ran)
  chatStore,     \* useChatStore (legacy chat): messages, isStreaming, streamingContent
  cancelStreamingFn, \* index into intervals of the stored cancel handle, 0 = null
  intervals      \* every chatApi.streamMessage call so far: its closure and timer

\* the orchestration store, its streams and its requests
agentVars == <<currentRun, isStarting, isConnected, error, _stream, streams, pending,
               lastEvent>>
\* the waveform store, its requests, and the WaveformSignal component
waveVars == <<waveform, vcdPending, props, rendered>>

\* the chat log and the ChatPanel component
panelVars == <<messages, lastIterationRef, lastStatusRef, deps>>
\* the legacy chat store and the streams of chatApi
legacyVars == <<chatStore, cancelStreamingFn, intervals>>
chatVars == <<panelVars, legacyVars>>
\* everything outside the orchestration store
viewVars == <<waveVars, panelVars, legacyVars>>

vars == <<currentRun, isStarting, isConnected, error, _stream, streams, pending,
          lastEvent, waveform, vcdPending, props, rendered,
          messages, lastIterationRef, lastStatusRef, deps,
          chatStore, cancelStreamingFn, intervals>>

\* currentRun: null
NoRun == [runId |-> 0]
\* _stream: null
NoStream == 0
\* lastEvent.step of a handler that was handed no step
NoStep == [none |-> TRUE]
\* op: the handler; ch: the stream it ran for (or closed); step: the step it was
\* handed; again: the handler before it was handed the same step.
\* The handlers of a stream are named by what ran: "onUpdate" (a step applied),
\* "onError" (an error-shaped frame), "catch" (a frame that did not parse),
\* "onerror" (the socket's error event), "onClose" (the socket's close event).
Event(op, ch, step) ==
  [op |-> op, ch |-> ch, step |-> step,
   again |-> step # NoStep /\ lastEvent.op = op /\ lastEvent.step = step]

SAMPLE_DESIGN == "c0"
SAMPLE_TESTBENCH == "tb0"

\* the orchestration store as constructed
InitAgent ==
  /\ currentRun = NoRun
  /\ isStarting = FALSE
  /\ isConnected = FALSE
  /\ error = NullStr
  /\ _stream = NoStream
  /\ streams = <<>>
  /\ pending = [m \in Modes |-> 0]
  /\ lastEvent = [op |-> "init", ch |-> 0, step |-> NoStep, again |-> FALSE]

\* --------------------------------------------------- OptimizationStream
\* createOptimizationStream / createTestGenStream: new OptimizationStream(runId,
\* ...) followed by connect(): the wrapper holds its socket (ws = TRUE) and the
\* socket is open. The endpoint only selects the URL and is not kept.
NewStream(runId) ==
  [runId |-> runId, ws |-> TRUE, readyState |-> "OPEN"]

\* OptimizationStream.close(): if (this.ws) { this.ws.close(); this.ws = null }
\* WebSocket.close() moves an open socket to CLOSING; its close event follows
\* later, as a task of its own
close(ss, c) ==
  IF ss[c].ws
    THEN [ss EXCEPT ![c].ws = FALSE,
                    ![c].readyState = IF @ = "OPEN" THEN "CLOSING" ELSE @]
    ELSE ss

\* ------------------------------------------------ the store's callbacks
\* the run record a successful create-run response initialises
NewRun(runId, mode) ==
  [runId |-> runId, mode |-> mode, iteration |-> 0, status |-> "running",
   code |-> SAMPLE_DESIGN,
   testbenchCode |-> IF mode = "optimize" THEN SAMPLE_TESTBENCH ELSE "",
   lutCount |-> NullNum, lutHistory |-> <<>>, agentReasoning |-> "",
   simPassed |-> "false", error |-> NullStr, done |-> "false"]

\* onUpdate with the series extended by the step's metric instead of replaced
\* by the step's series
onUpdateAppending(run, step) ==
  IF run = NoRun
    THEN NoRun
    ELSE [run EXCEPT
            !.iteration = step.iteration,
            !.status = IF TruthyStr(step.done)
                         THEN (IF TruthyStr(step.error) THEN "failed" ELSE "completed")
                         ELSE "running",
            !.code = IF TruthyStr(step.code) THEN step.code ELSE @,
            !.lutCount = step.lut_count,
            !.lutHistory = IF step.lut_count \notin {UndefNum, NullNum}
                             THEN Append(@, step.lut_count) ELSE @,
            !.agentReasoning = IF TruthyStr(step.reasoning) THEN step.reasoning ELSE @,
            !.simPassed = step.sim_passed,
            !.error = step.error,
            !.done = step.done]

\* onUpdate with the status left as it was instead of derived from step.done
onUpdateStatusKept(run, step) ==
  IF run = NoRun
    THEN NoRun
    ELSE [run EXCEPT
            !.iteration = step.iteration,
            !.code = IF TruthyStr(step.code) THEN step.code ELSE @,
            !.lutCount = step.lut_count,
            !.lutHistory = IF TruthySeq(step.lut_history) THEN step.lut_history ELSE @,
            !.agentReasoning = IF TruthyStr(step.reasoning) THEN step.reasoning ELSE @,
            !.simPassed = step.sim_passed,
            !.error = step.error,
            !.done = step.done]

\* onUpdate: the record the callback stores for state.currentRun = run
onUpdate(run, step) ==
  IF run = NoRun
    THEN NoRun
    ELSE [run EXCEPT
            !.iteration = step.iteration,
            !.status = IF TruthyStr(step.done)
                         THEN (IF TruthyStr(step.error) THEN "failed" ELSE "completed")
                         ELSE "running",
            !.code = IF TruthyStr(step.code) THEN step.code ELSE @,
            !.lutCount = step.lut_count,
            !.lutHistory = IF TruthySeq(step.lut_history) THEN step.lut_history ELSE @,
            !.agentReasoning = IF TruthyStr(step.reasoning) THEN step.reasoning ELSE @,
            !.simPassed = step.sim_passed,
            !.error = step.error,
            !.done = step.done]

\* ----------------------------------------------------------- operations
\* startOptimization / startTestGen up to the await of the create-run request
\* (max bounds the runs of one behaviour)
StartUpTo(mode, max) ==
  /\ Len(streams) + pending["optimize"] + pending["testgen"] < max
  /\ streams' = IF _stream # NoStream THEN close(streams, _stream) ELSE streams
  /\ isStarting' = TRUE
  /\ error' = NullStr
  /\ currentRun' = NoRun
  /\ pending' = [pending EXCEPT ![mode] = @ + 1]
  /\ lastEvent' = Event("start", _stream, NoStep)
  /\ UNCHANGED <<isConnected, _stream>>

Start(mode) == StartUpTo(mode, MaxRuns)
\* the same operation in a behaviour of MaxSoloRuns runs
StartSolo(mode) == StartUpTo(mode, MaxSoloRuns)

\* the create-run request resolved: the rest of the try block
StartResolved(mode) ==
  /\ pending[mode] > 0
  /\ pending' = [pending EXCEPT ![mode] = @ - 1]
  /\ LET c == Len(streams) + 1 IN
       /\ currentRun' = NewRun(c, mode)
       /\ streams' = Append(streams, NewStream(c))
       /\ _stream' = c
       /\ lastEvent' = Event("resolved", c, NoStep)
  /\ isStarting' = FALSE
  /\ isConnected' = TRUE
  /\ UNCHANGED error

\* the catch block with a failed run record stored beside the store-level error
StartRejectedFailing(mode) ==
  /\ pending[mode] > 0
  /\ pending' = [pending EXCEPT ![mode] = @ - 1]
  /\ error' = "Failed to start"
  /\ isStarting' = FALSE
  /\ isConnected' = FALSE
  /\ currentRun' = [NewRun(Len(streams) + 1, mode) EXCEPT
                      !.status = "failed", !.error = "Failed to start",
                      !.done = "true"]
  /\ lastEvent' = Event("rejected", 0, NoStep)
  /\ UNCHANGED <<_stream, streams>>

\* the create-run request rejected: the catch block
StartRejected(mode) ==
  /\ pending[mode] > 0
  /\ pending' = [pending EXCEPT ![mode] = @ - 1]
  /\ error' = "Failed to start"
  /\ isStarting' = FALSE
  /\ isConnected' = FALSE
  /\ lastEvent' = Event("rejected", 0, NoStep)
  /\ UNCHANGED <<currentRun, _stream, streams>>

\* ws.onmessage with a frame that does not parse handed to onUpdate as a step
\* without fields
WsOnMessageLenient(c, data) ==
  /\ streams[c].readyState # "CLOSED"
  /\ IF data = Garbage
       THEN /\ currentRun' = onUpdate(currentRun, [TrailingDone EXCEPT !.done = UndefStr])
            /\ isConnected' = TRUE
            /\ lastEvent' = Event("catch", c, NoStep)
            /\ UNCHANGED <<error, streams>>
       ELSE IF TruthyStr(data.error)
         THEN /\ error' = data.error
              /\ isConnected' = FALSE
              /\ streams' = close(streams, c)
              /\ lastEvent' = Event("onError", c, data)
              /\ UNCHANGED currentRun
         ELSE /\ currentRun' = onUpdate(currentRun, data)
              /\ isConnected' = TRUE
              /\ lastEvent' = Event("onUpdate", c, data)
              /\ UNCHANGED <<error, streams>>
  /\ UNCHANGED <<isStarting, _stream, pending>>

\* ws.onmessage of stream c. The handler stays attached to the socket after
\* close(), and it tests neither this.ws nor the stored _stream: a frame handed
\* to it between close() and the close event runs it like any other.
WsOnMessage(c, data) ==
  /\ streams[c].readyState # "CLOSED"
  /\ IF data = Garbage
       THEN \* JSON.parse throws: onError('Failed to parse server message')
            /\ error' = "Failed to parse server message"
            /\ isConnected' = FALSE
            /\ lastEvent' = Event("catch", c, NoStep)
            /\ UNCHANGED <<currentRun, streams>>
       ELSE IF TruthyStr(data.error)
         THEN \* onError(data.error); this.close()
              /\ error' = data.error
              /\ isConnected' = FALSE
              /\ streams' = close(streams, c)
              /\ lastEvent' = Event("onError", c, data)
              /\ UNCHANGED currentRun
         ELSE \* onUpdate(data)
              /\ currentRun' = onUpdate(currentRun, data)
              /\ isConnected' = TRUE
              /\ lastEvent' = Event("onUpdate", c, data)
              /\ UNCHANGED <<error, streams>>
  /\ UNCHANGED <<isStarting, _stream, pending>>

\* ws.onerror with an onError callback that also fails the run record
WsOnErrorFailing(c) ==
  /\ streams[c].readyState # "CLOSED"
  /\ error' = "WebSocket connection error"
  /\ isConnected' = FALSE
  /\ currentRun' = IF currentRun = NoRun THEN NoRun
                   ELSE [currentRun EXCEPT !.status = "failed",
                                           !.error = "WebSocket connection error"]
  /\ lastEvent' = Event("onerror", c, NoStep)
  /\ UNCHANGED <<isStarting, _stream, streams, pending>>

\* ws.onerror of stream c: onError('WebSocket connection error')
WsOnError(c) ==
  /\ streams[c].readyState # "CLOSED"
  /\ error' = "WebSocket connection error"
  /\ isConnected' = FALSE
  /\ lastEvent' = Event("onerror", c, NoStep)
  /\ UNCHANGED <<currentRun, isStarting, _stream, streams, pending>>

\* ws.onclose with an onClose callback that opens a new stream for the run
WsOnCloseReconnecting(c) ==
  /\ streams[c].readyState # "CLOSED"
  /\ streams' = Append([streams EXCEPT ![c].readyState = "CLOSED"],
                       NewStream(streams[c].runId))
  /\ isConnected' = TRUE
  /\ _stream' = Len(streams) + 1
  /\ lastEvent' = Event("onClose", c, NoStep)
  /\ UNCHANGED <<currentRun, isStarting, error, pending>>

\* ws.onclose of stream c (the server closed, or the close event that follows
\* close()): onClose() sets isConnected false and _setStream(null)
WsOnClose(c) ==
  /\ streams[c].readyState # "CLOSED"
  /\ streams' = [streams EXCEPT ![c].readyState = "CLOSED"]
  /\ isConnected' = FALSE
  /\ _stream' = NoStream
  /\ lastEvent' = Event("onClose", c, NoStep)
  /\ UNCHANGED <<currentRun, isStarting, error, pending>>

\* stopOptimization that also clears the run record
stopOptimizationClearing ==
  /\ streams' = IF _stream # NoStream THEN close(streams, _stream) ELSE streams
  /\ _stream' = NoStream
  /\ isConnected' = FALSE
  /\ currentRun' = NoRun
  /\ lastEvent' = Event("stop", _stream, NoStep)
  /\ UNCHANGED <<isStarting, error, pending>>

stopOptimization ==
  /\ streams' = IF _stream # NoStream THEN close(streams, _stream) ELSE streams
  /\ _stream' = NoStream
  /\ isConnected' = FALSE
  /\ lastEvent' = Event("stop", _stream, NoStep)
  /\ UNCHANGED <<currentRun, isStarting, error, pending>>

\* reset without the stream.close() of its first lines
resetKeepingStream ==
  /\ currentRun' = NoRun
  /\ isStarting' = FALSE
  /\ isConnected' = FALSE
  /\ error' = NullStr
  /\ _stream' = NoStream
  /\ lastEvent' = Event("reset", _stream, NoStep)
  /\ UNCHANGED <<streams, pending>>

reset ==
  /\ streams' = IF _stream # NoStream THEN close(streams, _stream) ELSE streams
  /\ currentRun' = NoRun
  /\ isStarting' = FALSE
  /\ isConnected' = FALSE
  /\ error' = NullStr
  /\ _stream' = NoStream
  /\ lastEvent' = Event("reset", _stream, NoStep)
  /\ UNCHANGED pending

\* ----------------------------------------------------- the waveform side
\* useWaveformStore as constructed
initialWaveformState ==
  [signals |-> <<>>, vcdPath |-> NullStr, simPassed |-> FALSE, currentTime |-> 0,
   maxTime |-> 0, isLoading |-> FALSE, error |-> NullStr]
\* props, rendered: no WaveformSignal is mounted
NoProps == [mounted |-> FALSE]
NotRendered == [rendered |-> FALSE]

\* ------------------------------------------------------- the chat side
\* useChatStore (agent reasoning) as constructed: the 'system_1' message
ReadyMessage ==
  [role |-> "system", content |-> "ready", phase |-> UndefStr, iteration |-> UndefNum,
   reduction |-> 0, lutCount |-> UndefNum, run |-> 0]
\* the dependencies of the ChatPanel effect: currentRun?.iteration,
\* currentRun?.agentReasoning, currentRun?.status
Deps(run) ==
  IF run = NoRun
    THEN <<UndefNum, UndefStr, UndefStr>>
    ELSE <<run.iteration, run.agentReasoning, run.status>>
\* deps: the right panel is collapsed and ChatPanel is not rendered
NotMounted == [mounted |-> FALSE]
\* deps: ChatPanel has mounted and its effect has not run yet
JustMounted == [mounted |-> TRUE, ran |-> FALSE]
\* deps: the effect last ran for a render with the dependencies d
Ran(d) == [mounted |-> TRUE, ran |-> TRUE, last |-> d]
\* ChatPanel mounted over the stores as constructed (rightPanelCollapsed is
\* false): its effect has run once, with currentRun null
InitPanel ==
  /\ messages = <<ReadyMessage>>
  /\ lastIterationRef = -1
  /\ lastStatusRef = NullStr
  /\ deps = Ran(Deps(NoRun))
\* useChatStore (legacy chat) as constructed, cancelStreamingFn null, no stream
InitLegacy ==
  /\ chatStore = [messages |-> <<>>, isStreaming |-> FALSE, streamingContent |-> <<>>]
  /\ cancelStreamingFn = 0
  /\ intervals = <<>>

\* every store as constructed, no WaveformSignal mounted
Init ==
  /\ InitAgent
  /\ waveform = initialWaveformState
  /\ vcdPending = <<>>
  /\ props = NoProps
  /\ rendered = NotRendered
  /\ InitPanel
  /\ InitLegacy

Next ==
  \/ \E mode \in Modes : Start(mode) /\ UNCHANGED viewVars
  \/ \E mode \in Modes : StartResolved(mode) /\ UNCHANGED viewVars
  \/ \E mode \in Modes : StartRejected(mode) /\ UNCHANGED viewVars
  \/ \E c \in DOMAIN streams : \E data \in Frames : WsOnMessage(c, data) /\ UNCHANGED viewVars
  \/ \E c \in DOMAIN streams : WsOnError(c) /\ UNCHANGED viewVars
  \/ \E c \in DOMAIN streams : WsOnClose(c) /\ UNCHANGED viewVars
  \/ stopOptimization /\ UNCHANGED viewVars
  \/ reset /\ UNCHANGED viewVars

Spec == Init /\ [][Next]_vars

\* One run and its stream: the reconciliation of the steps of a run, without a
\* second start.
NextRun ==
  \/ \E mode \in Modes : StartSolo(mode) /\ UNCHANGED viewVars
  \/ \E mode \in Modes : StartResolved(mode) /\ UNCHANGED viewVars
  \/ \E mode \in Modes : StartRejected(mode) /\ UNCHANGED viewVars
  \/ \E c \in DOMAIN streams : \E data \in Frames : WsOnMessage(c, data) /\ UNCHANGED viewVars
  \/ \E c \in DOMAIN streams : WsOnError(c) /\ UNCHANGED viewVars
  \/ \E c \in DOMAIN streams : WsOnClose(c) /\ UNCHANGED viewVars
  \/ stopOptimization /\ UNCHANGED viewVars
  \/ reset /\ UNCHANGED viewVars

SpecRun == Init /\ [][NextRun]_vars

\* The operations of the store with overlapping starts, the streams delivering
\* one frame of each kind: a step, a terminal step, an error-shaped frame and a
\* frame that does not parse.
LifecycleFrames ==
  {FullStep(1, TRUE, "false"), FullStep(MaxIter, TRUE, "true"), Garbage}
    \cup {f \in FailedSteps : f.done = "true"}

NextStart ==
  \/ \E mode \in Modes : Start(mode) /\ UNCHANGED viewVars
  \/ \E mode \in Modes : StartResolved(mode) /\ UNCHANGED viewVars
  \/ \E mode \in Modes : StartRejected(mode) /\ UNCHANGED viewVars
  \/ \E c \in DOMAIN streams : \E data \in LifecycleFrames : WsOnMessage(c, data) /\ UNCHANGED viewVars
  \/ \E c \in DOMAIN streams : WsOnError(c) /\ UNCHANGED viewVars
  \/ \E c \in DOMAIN streams : WsOnClose(c) /\ UNCHANGED viewVars
  \/ stopOptimization /\ UNCHANGED viewVars
  \/ reset /\ UNCHANGED viewVars

SpecStart == Init /\ [][NextStart]_vars

\* --------------------------------------------------------- WaveformSignal
\* events of one signal
MaxEvents == 3
\* event times are TimeStep * (0 .. MaxTick); maxTime reaches one step further
MaxTick == 2
TimeStep == 10
\* width of the multi-bit signals
BusWidth == 8

SIGNAL_HEIGHT == 32
\* useViewSettingsStore: pixels per time unit
timeScale == 2
\* the number NaN
NaN == -1

\* A value token is the sequence of its characters.
\* the sentinel of currentValue
X == <<"X">>
\* let lastValue: string | null = null
NullToken == <<NullStr>>
BitValues == {<<"0">>, <<"1">>}
BusValues == {<<"0", "0", "0", "0", "1", "0", "1", "0">>,
              <<"0", "1", "x", "1", "z", "z", "z", "z">>}

EventTimes == {TimeStep * k : k \in 0..MaxTick}
\* the values of a signal, in the order the backend delivers them
EventLists(tokens) ==
  UNION {[1..n -> [time : EventTimes, value : tokens]] : n \in 0..MaxEvents}
\* maxTime and currentTime as WaveformView hands them over from the waveform
\* store: maxTime is the largest event time of all signals (this one included),
\* currentTime lies in 0 .. maxTime
WindowsOf(values) ==
  {w \in [maxTime : {TimeStep * k : k \in 0..(MaxTick + 1)},
          currentTime : {(TimeStep \div 2) * k : k \in 0..(2 * (MaxTick + 1))}] :
     /\ w.currentTime <= w.maxTime
     /\ \A i \in DOMAIN values : values[i].time <= w.maxTime}
\* the kinds of signal: single-bit and multi-bit
SignalKinds ==
  {[width |-> 1, tokens |-> BitValues], [width |-> BusWidth, tokens |-> BusValues]}

\* the sort left out: the values in input order
unsorted(values) == values

\* a sort by time that puts an event before the earlier events of the same time
RECURSIVE sortByTimeTiesFirst(_)
sortByTimeTiesFirst(values) ==
  IF values = <<>>
    THEN <<>>
    ELSE LET rest == sortByTimeTiesFirst(SubSeq(values, 1, Len(values) - 1))
             e == values[Len(values)]
             k == Cardinality({i \in DOMAIN rest : rest[i].time < e.time})
         IN  SubSeq(rest, 1, k) \o <<e>> \o SubSeq(rest, k + 1, Len(rest))

\* [...values].sort((a, b) => a.time - b.time): Array.prototype.sort is stable,
\* so events of equal time keep their input order
RECURSIVE sortByTime(_)
sortByTime(values) ==
  IF values = <<>>
    THEN <<>>
    ELSE LET rest == sortByTime(SubSeq(values, 1, Len(values) - 1))
             e == values[Len(values)]
             k == Cardinality({i \in DOMAIN rest : rest[i].time <= e.time})
         IN  SubSeq(rest, 1, k) \o <<e>> \o SubSeq(rest, k + 1, Len(rest))

\* the for loop of currentValue, leaving at the first event that is not before
\* currentTime
RECURSIVE scanExclusive(_, _, _, _)
scanExclusive(sortedValues, i, currentTime, lastVal) ==
  IF i > Len(sortedValues) \/ sortedValues[i].time >= currentTime
    THEN lastVal
    ELSE scanExclusive(sortedValues, i + 1, currentTime, sortedValues[i].value)

\* the for loop of currentValue from index i on
RECURSIVE scan(_, _, _, _)
scan(sortedValues, i, currentTime, lastVal) ==
  IF i > Len(sortedValues) \/ sortedValues[i].time > currentTime
    THEN lastVal
    ELSE scan(sortedValues, i + 1, currentTime, sortedValues[i].value)

\* currentValue with '0' for the empty list
currentValueZeroDefault(values, currentTime) ==
  IF values = <<>>
    THEN <<"0">>
    ELSE LET sortedValues == sortByTime(values)
         IN  scan(sortedValues, 1, currentTime, sortedValues[1].value)

currentValue(values, currentTime) ==
  IF values = <<>>
    THEN X
    ELSE LET sortedValues == sortByTime(values)
         IN  scan(sortedValues, 1, currentTime, sortedValues[1].value)

\* the y of a level
levelY(value) ==
  IF value = <<"1">> THEN 4
  ELSE IF value = <<"0">> THEN SIGNAL_HEIGHT - 8
  ELSE SIGNAL_HEIGHT \div 2

\* the forEach of pathD from index i on: the points it pushes
RECURSIVE points(_, _, _, _)
points(sortedValues, i, lastValue, maxTime) ==
  IF i > Len(sortedValues)
    THEN <<>>
    ELSE LET v == sortedValues[i]
             x == v.time * timeScale
             y == levelY(v.value)
             nextTime == IF i + 1 <= Len(sortedValues)
                           THEN sortedValues[i + 1].time ELSE maxTime
             transition ==
               IF lastValue # NullToken /\ lastValue # v.value
                 THEN <<[cmd |-> "L", x |-> x, y |-> levelY(lastValue)],
                        [cmd |-> "L", x |-> x, y |-> y]>>
                 ELSE IF i = 1 THEN <<[cmd |-> "M", x |-> x, y |-> y]>> ELSE <<>>
         IN  transition \o <<[cmd |-> "L", x |-> nextTime * timeScale, y |-> y]>>
               \o points(sortedValues, i + 1, v.value, maxTime)

\* pathD: the path as the sequence of its commands ('' is the empty sequence);
\* .replace(/^L/, 'M') turns a leading L into M
pathD(width, values, maxTime) ==
  IF width # 1 \/ values = <<>>
    THEN <<>>
    ELSE LET ps == points(sortByTime(values), 1, NullToken, maxTime)
         IN  IF ps[1].cmd = "L" THEN [ps EXCEPT ![1].cmd = "M"] ELSE ps

\* parseInt(token, 2): the number of the longest prefix of binary digits, NaN if
\* the token does not start with one
RECURSIVE parseDigits(_, _, _)
parseDigits(token, i, acc) ==
  IF i > Len(token) \/ token[i] \notin {"0", "1"}
    THEN acc
    ELSE parseDigits(token, i + 1, 2 * acc + (IF token[i] = "1" THEN 1 ELSE 0))
parseInt(token) ==
  IF token = <<>> \/ token[1] \notin {"0", "1"} THEN NaN ELSE parseDigits(token, 1, 0)

\* n.toString(16).toUpperCase()
HexDigit(d) ==
  <<"0", "1", "2", "3", "4", "5", "6", "7", "8", "9", "A", "B", "C", "D", "E", "F">>[d + 1]
RECURSIVE toString16(_)
toString16(n) ==
  IF n = NaN THEN <<"N", "A", "N">>
  ELSE IF n < 16 THEN <<HexDigit(n)>>
  ELSE toString16(n \div 16) \o <<HexDigit(n % 16)>>

\* the value label
valueLabel(width, value) ==
  IF width > 1 THEN <<"0", "x">> \o toString16(parseInt(value)) ELSE value

\* the text drawn in a box
NoText == <<>>
\* the value boxes with every box drawn up to maxTime
boxesOpenEnded(width, values, maxTime) ==
  IF width = 1
    THEN <<>>
    ELSE [i \in DOMAIN values |->
            LET v == values[i]
                w == (maxTime - v.time) * timeScale
            IN  [x |-> v.time * timeScale, width |-> w,
                 text |-> IF w > 30
                            THEN (IF Len(v.value) > 8 THEN <<".", ".", ".">> ELSE v.value)
                            ELSE NoText]]

\* the value boxes of a multi-bit signal: values.map, in input order
boxes(width, values, maxTime) ==
  IF width = 1
    THEN <<>>
    ELSE [i \in DOMAIN values |->
            LET v == values[i]
                nextTime == IF i + 1 <= Len(values) THEN values[i + 1].time ELSE maxTime
                w == (nextTime - v.time) * timeScale
            IN  [x |-> v.time * timeScale, width |-> w,
                 text |-> IF w > 30
                            THEN (IF Len(v.value) > 8 THEN <<".", ".", ".">> ELSE v.value)
                            ELSE NoText]]

\* what one render of WaveformSignal shows for props p
WaveformSignal(p) ==
  [rendered |-> TRUE,
   pathD |-> pathD(p.width, p.values, p.maxTime),
   currentValue |-> currentValue(p.values, p.currentTime),
   label |-> valueLabel(p.width, currentValue(p.values, p.currentTime)),
   boxes |-> boxes(p.width, p.values, p.maxTime)]

\* the component renders for its props
Render ==
  /\ props # NoProps
  /\ rendered = NotRendered
  /\ rendered' = WaveformSignal(props)
  /\ UNCHANGED <<agentVars, waveform, vcdPending, props>>

\* One WaveformSignal, mounted with a signal of either kind and a window
InitSignal ==
  /\ InitAgent
  /\ waveform = initialWaveformState
  /\ vcdPending = <<>>
  /\ \E kind \in SignalKinds : \E values \in EventLists(kind.tokens) :
       \E w \in WindowsOf(values) :
         props = [mounted |-> TRUE, width |-> kind.width, values |-> values,
                  currentTime |-> w.currentTime, maxTime |-> w.maxTime]
  /\ rendered = NotRendered
  /\ InitPanel
  /\ InitLegacy

NextSignal ==
  \/ Render /\ UNCHANGED chatVars

SpecSignal == InitSignal /\ [][NextSignal]_vars

\* Math.max, Math.min
Max(a, b) == IF a >= b THEN a ELSE b
Min(a, b) == IF a <= b THEN a ELSE b

\* -------------------------------------------------------- useWaveformStore
\* runWithVcd requests in flight at once
MaxVcdPending == 2
\* events of one signal of a VCD result
MaxVcdEvents == 2

\* result.signals: undefined
UndefSignals == <<[undefined |-> TRUE]>>
\* the event times of `sig` in a VCD result
VcdTimes == <<0, 2 * TimeStep>>
\* the signals of a VCD result: a signal `sig` with up to MaxVcdEvents events
\* that alternate between the two times, starting at either (so that the latest
\* event is the last listed or not), alone or beside a clock with one event
\* between them
VcdEventLists ==
  {[k \in 1..n |-> [time |-> VcdTimes[1 + ((k + first) % 2)], value |-> <<"1">>]] :
     n \in 0..MaxVcdEvents, first \in 0..1}
VcdSignalLists ==
  {UndefSignals, <<>>}
    \cup {<<[name |-> "sig", width |-> 1, values |-> values]>> : values \in VcdEventLists}
    \cup {<<[name |-> "sig", width |-> 1, values |-> values],
            [name |-> "clk", width |-> 1,
             values |-> <<[time |-> TimeStep, value |-> <<"0">>]>>]>> :
            values \in VcdEventLists}
\* the responses of runWithVcd: a simulation that passed, one that failed and
\* left no signals, and one that reports an error
VcdResults ==
  [success : {TRUE}, vcd_path : {"run.vcd"}, signals : VcdSignalLists, error : {UndefStr}]
    \cup [success : {FALSE}, vcd_path : {UndefStr, "run.vcd"},
          signals : {UndefSignals, <<>>}, error : {UndefStr}]
    \cup [success : {FALSE}, vcd_path : {UndefStr}, signals : {UndefSignals},
          error : {"sim failed"}]
\* the times setCurrentTime is called with: before 0, inside and beyond every
\* window
CursorTimes ==
  {-TimeStep} \cup {(TimeStep \div 2) * k : k \in 0..(2 * (MaxTick + 1))}

\* the forEach over result.signals and their values: the largest event time,
\* starting from 0
RECURSIVE maxTimeOfValues(_, _, _)
maxTimeOfValues(values, i, maxTime) ==
  IF i > Len(values)
    THEN maxTime
    ELSE maxTimeOfValues(values, i + 1,
                         IF values[i].time > maxTime THEN values[i].time ELSE maxTime)
RECURSIVE maxTimeOfSignals(_, _, _)
maxTimeOfSignals(signals, i, maxTime) ==
  IF i > Len(signals)
    THEN maxTime
    ELSE maxTimeOfSignals(signals, i + 1, maxTimeOfValues(signals[i].values, 1, maxTime))

\* a call of runSimulationWithVcd suspended at its await; overtaken: a call
\* issued after it has stored its result since; cleared: clearWaveform ran since
NewVcdRequest == [overtaken |-> FALSE, cleared |-> FALSE]
\* the calls in flight once call i has continued; stored: it stored its result
VcdSettled(i, stored) ==
  [j \in 1..(Len(vcdPending) - 1) |->
     IF j < i
       THEN [vcdPending[j] EXCEPT !.overtaken = @ \/ stored]
       ELSE vcdPending[j + 1]]

\* runSimulationWithVcd up to the await of runWithVcd
runSimulationWithVcd ==
  /\ Len(vcdPending) < MaxVcdPending
  /\ waveform' = [waveform EXCEPT !.isLoading = TRUE, !.error = NullStr]
  /\ vcdPending' = Append(vcdPending, NewVcdRequest)
  /\ UNCHANGED <<agentVars, props, rendered>>

\* the try block storing the signals of the result after the signals it holds
VcdResolvedMerging(i, result) ==
  /\ i \in DOMAIN vcdPending
  /\ vcdPending' = VcdSettled(i, ~TruthyStr(result.error))
  /\ IF TruthyStr(result.error)
       THEN waveform' = [waveform EXCEPT !.isLoading = FALSE, !.error = result.error]
       ELSE waveform' =
              [waveform EXCEPT
                 !.signals = @ \o (IF result.signals # UndefSignals
                                     THEN result.signals ELSE <<>>),
                 !.vcdPath = IF TruthyStr(result.vcd_path) THEN result.vcd_path ELSE NullStr,
                 !.simPassed = result.success,
                 !.maxTime = IF result.signals # UndefSignals
                               THEN maxTimeOfSignals(result.signals, 1, @) ELSE @,
                 !.isLoading = FALSE,
                 !.error = NullStr]
  /\ UNCHANGED <<agentVars, props, rendered>>

\* runWithVcd of call i resolved with result: the rest of the try block
VcdResolved(i, result) ==
  /\ i \in DOMAIN vcdPending
  /\ vcdPending' = VcdSettled(i, ~TruthyStr(result.error))
  /\ IF TruthyStr(result.error)
       THEN waveform' = [waveform EXCEPT !.isLoading = FALSE, !.error = result.error]
       ELSE waveform' =
              [signals |-> IF result.signals # UndefSignals THEN result.signals ELSE <<>>,
               vcdPath |-> IF TruthyStr(result.vcd_path) THEN result.vcd_path ELSE NullStr,
               simPassed |-> result.success,
               currentTime |-> 0,
               maxTime |-> IF result.signals # UndefSignals
                             THEN maxTimeOfSignals(result.signals, 1, 0) ELSE 0,
               isLoading |-> FALSE,
               error |-> NullStr]
  /\ UNCHANGED <<agentVars, props, rendered>>

\* runWithVcd of call i rejected: the catch block
VcdRejected(i) ==
  /\ i \in DOMAIN vcdPending
  /\ vcdPending' = VcdSettled(i, FALSE)
  /\ waveform' = [waveform EXCEPT !.isLoading = FALSE, !.error = "Network error"]
  /\ UNCHANGED <<agentVars, props, rendered>>

\* setCurrentTime that stores the time as given
setCurrentTimeUnclamped(time) ==
  /\ waveform' = [waveform EXCEPT !.currentTime = time]
  /\ UNCHANGED <<agentVars, vcdPending, props, rendered>>

setCurrentTime(time) ==
  /\ waveform' = [waveform EXCEPT
                    !.currentTime = Max(0, Min(time, waveform.maxTime))]
  /\ UNCHANGED <<agentVars, vcdPending, props, rendered>>

clearWaveform ==
  /\ waveform' = initialWaveformState
  /\ vcdPending' = [j \in DOMAIN vcdPending |-> [vcdPending[j] EXCEPT !.cleared = TRUE]]
  /\ UNCHANGED <<agentVars, props, rendered>>

NextWave ==
  \/ runSimulationWithVcd /\ UNCHANGED chatVars
  \/ \E i \in DOMAIN vcdPending : \E result \in VcdResults :
       VcdResolved(i, result) /\ UNCHANGED chatVars
  \/ \E i \in DOMAIN vcdPending : VcdRejected(i) /\ UNCHANGED chatVars
  \/ \E time \in CursorTimes : setCurrentTime(time) /\ UNCHANGED chatVars
  \/ clearWaveform /\ UNCHANGED chatVars

SpecWave == Init /\ [][NextWave]_vars

\* -------------------------------------------------------------- ChatPanel
\* entries of the chat log (an effect whose entries do not fit waits until
\* clearMessages empties the log)
MaxMessages == 3

\* a number operand of `>`: null counts as 0
ToNumber(n) == IF n = NullNum THEN 0 ELSE n
\* a > b where a may be undefined (NaN, which is greater than nothing)
GreaterThan(a, b) == a # UndefNum /\ ToNumber(a) > ToNumber(b)
\* Math.round((first - last) / first * 100)
RoundedPercent(first, last) == (200 * (first - last) + first) \div (2 * first)

\* addMessage: the entry appended to the log (id and timestamp are not kept).
\* run is not a field of AgentMessage: it records the run the entry was added for.
Entry(role, content, run) ==
  [role |-> role, content |-> content, phase |-> UndefStr, iteration |-> UndefNum,
   reduction |-> 0, lutCount |-> UndefNum, run |-> run.runId]
\* the reasoning entry of the effect
ReasoningEntry(run) ==
  [Entry("assistant", run.agentReasoning, run) EXCEPT
     !.phase = run.status, !.iteration = run.iteration]
\* the entry of the effect for a status that changed from last: completed and
\* failed after running, running after anything else; <<>> when it adds none
StatusEntries(run, last) ==
  IF run.status = "completed" /\ last = "running"
    THEN LET h == run.lutHistory
             reduction == IF Len(h) > 1 THEN RoundedPercent(h[1], h[Len(h)]) ELSE 0
         IN <<[Entry("system", "completed", run) EXCEPT
                 !.reduction = IF reduction > 0 THEN reduction ELSE 0,
                 !.lutCount = run.lutCount]>>
    ELSE IF run.status = "failed" /\ last = "running"
      THEN <<Entry("system",
                   IF TruthyStr(run.error) THEN run.error ELSE "Unknown error", run)>>
      ELSE IF run.status = "running" /\ last # "running"
        THEN <<Entry("system", IF run.mode = "testgen" THEN "Starting testbench generation"
                                                        ELSE "Starting optimization", run)>>
        ELSE <<>>

\* the effect of ChatPanel: React runs it after the first render, and after a
\* render in which one of its dependencies differs from the render it last ran
\* for
ChatEffect ==
  /\ deps # NotMounted
  /\ deps # Ran(Deps(currentRun))
  /\ deps' = Ran(Deps(currentRun))
  /\ IF currentRun = NoRun
       THEN /\ lastIterationRef' = -1
            /\ lastStatusRef' = NullStr
            /\ UNCHANGED messages
       ELSE LET reasoned == /\ TruthyStr(currentRun.agentReasoning)
                            /\ GreaterThan(currentRun.iteration, lastIterationRef)
            IN /\ messages' =
                    (IF reasoned THEN Append(messages, ReasoningEntry(currentRun))
                                 ELSE messages)
                      \o (IF currentRun.status # lastStatusRef
                            THEN StatusEntries(currentRun, lastStatusRef) ELSE <<>>)
               /\ lastIterationRef' =
                    IF reasoned THEN currentRun.iteration ELSE lastIterationRef
               /\ lastStatusRef' = currentRun.status
  /\ Len(messages') <= MaxMessages
  /\ UNCHANGED <<agentVars, waveVars, legacyVars>>

\* clearMessages: the log is the 'system_1' message again
clearMessages ==
  /\ messages' = <<ReadyMessage>>
  /\ UNCHANGED <<agentVars, waveVars, lastIterationRef, lastStatusRef, deps, legacyVars>>

\* the frames of a run as the panel sees them: a step with reasoning for every
\* iteration, a step without reasoning, the terminal step and the closing frame
\* without an iteration
PanelFrames ==
  {FullStep(i, TRUE, "false") : i \in 1..MaxIter}
    \cup {FullStep(MaxIter, TRUE, "true"), TrailingDone}
    \cup {f \in SparseSteps : f.iteration = 1 /\ f.reasoning = ""}

\* toggleRightPanel: collapsing the right panel unmounts ChatPanel, expanding
\* it mounts a new ChatPanel, whose refs are as created; the chat log is in the
\* store and stays
toggleRightPanel ==
  /\ deps' = IF deps = NotMounted THEN JustMounted ELSE NotMounted
  /\ lastIterationRef' = -1
  /\ lastStatusRef' = NullStr
  /\ UNCHANGED <<agentVars, waveVars, messages, legacyVars>>

\* no effect is waiting to run
EffectsFlushed == deps \in {NotMounted, Ran(Deps(currentRun))}

\* The orchestration store with ChatPanel mounted over it. Every update of the
\* store renders the panel, and React runs the effect of a render before it
\* renders again: the next update finds the effect done.
\* The operations are those that write currentRun, the runs those of
\* startOptimization (startTestGen differs in the endpoint and in the text of
\* the entry that announces the run). Without the close event a stream takes
\* frames for ever, the closed stream of a replaced run included.
NextPanel ==
  \/ EffectsFlushed /\ Start("optimize") /\ UNCHANGED viewVars
  \/ EffectsFlushed /\ StartResolved("optimize") /\ UNCHANGED viewVars
  \/ \E c \in DOMAIN streams : \E data \in PanelFrames :
       EffectsFlushed /\ WsOnMessage(c, data) /\ UNCHANGED viewVars
  \/ EffectsFlushed /\ reset /\ UNCHANGED viewVars
  \/ ChatEffect
  \/ clearMessages
  \/ EffectsFlushed /\ toggleRightPanel

SpecPanel == Init /\ [][NextPanel]_vars

\* ------------------------------------------- useChatStore (legacy chat)
\* calls of sendMessageStreaming in one behaviour
MaxStreams == 2
\* words of the response chatApi.streamMessage delivers
MaxWords == 2

\* chatApi.streamMessage: the closure of one call (cancelled, index) and its
\* timer (cleared: clearInterval was called on it). stale is not part of the
\* code: cancelStreaming() has returned since the call.
NewInterval == [cancelled |-> FALSE, index |-> 0, cleared |-> FALSE, stale |-> FALSE]
\* every stream started so far has seen a cancelStreaming() return
AllStale(ivs) == [k \in DOMAIN ivs |-> [ivs[k] EXCEPT !.stale = TRUE]]

\* sendMessageStreaming: the user message, then chatApi.streamMessage, whose
\* cancel function replaces the stored one
sendMessageStreaming ==
  /\ Len(intervals) < MaxStreams
  /\ chatStore' = [messages |-> Append(chatStore.messages, "user"),
                   isStreaming |-> TRUE,
                   streamingContent |-> <<>>]
  /\ intervals' = Append(intervals, NewInterval)
  /\ cancelStreamingFn' = Len(intervals) + 1
  /\ UNCHANGED <<agentVars, waveVars, panelVars>>

\* the setInterval callback of stream k: a word handed to onChunk, or, after
\* the last word, the assistant message handed to onComplete
Tick(k) ==
  /\ ~intervals[k].cleared
  /\ IF intervals[k].cancelled \/ intervals[k].index >= MaxWords
       THEN /\ intervals' = [intervals EXCEPT ![k].cleared = TRUE]
            /\ IF ~intervals[k].cancelled
                 THEN /\ chatStore' = [messages |-> Append(chatStore.messages, "assistant"),
                                       isStreaming |-> FALSE,
                                       streamingContent |-> <<>>]
                      /\ cancelStreamingFn' = 0
                 ELSE UNCHANGED <<chatStore, cancelStreamingFn>>
       ELSE /\ chatStore' = [chatStore EXCEPT
                               !.streamingContent = Append(@, intervals[k].index + 1)]
            /\ intervals' = [intervals EXCEPT ![k].index = @ + 1]
            /\ UNCHANGED cancelStreamingFn
  /\ UNCHANGED <<agentVars, waveVars, panelVars>>

\* cancelStreaming: the stored cancel function, if there is one, is called
\* (cancelled = true, clearInterval) and dropped
cancelStreaming ==
  /\ IF cancelStreamingFn # 0
       THEN /\ intervals' = [AllStale(intervals) EXCEPT
                               ![cancelStreamingFn].cancelled = TRUE,
                               ![cancelStreamingFn].cleared = TRUE]
            /\ cancelStreamingFn' = 0
            /\ chatStore' = [chatStore EXCEPT !.isStreaming = FALSE,
                                              !.streamingContent = <<>>]
       ELSE /\ intervals' = AllStale(intervals)
            /\ UNCHANGED <<chatStore, cancelStreamingFn>>
  /\ UNCHANGED <<agentVars, waveVars, panelVars>>

NextLegacy ==
  \/ sendMessageStreaming
  \/ \E k \in DOMAIN intervals : Tick(k)
  \/ cancelStreaming

SpecLegacy == Init /\ [][NextLegacy]_vars

\* ------------------------------------------------------------ vocabulary
\* the client called close() on stream c
ClosedByClient(c) == ~streams[c].ws
\* the same, after the transition
ClosedByClientNext(c) == ~streams'[c].ws
\* stream c is open and the client has not closed it
Live(c) == streams[c].ws /\ streams[c].readyState = "OPEN"
LiveStreams == {c \in DOMAIN streams : Live(c)}
\* the record is terminal
Terminal(run) ==
  run # NoRun /\ run.done = "true" /\ run.status \in {"completed", "failed"}
\* the step of the transition was applied by onUpdate of the stream of currentRun
AppliedToRun ==
  /\ lastEvent'.op = "onUpdate"
  /\ currentRun # NoRun
  /\ lastEvent'.ch = currentRun.runId
IsPrefix(s, t) == Len(s) <= Len(t) /\ SubSeq(t, 1, Len(s)) = s


\* ----------------------------------------------------------------- claims

\* C1 (as claimed): once a step with done = true has been applied (the record
\* has done = true and status completed or failed), a later step handed to the
\* onUpdate callback of the run leaves currentRun unchanged in every field.
C1_TerminalLock ==
  [][(AppliedToRun /\ Terminal(currentRun)) => currentRun' = currentRun]_vars

\* C2 (as claimed): a start issued while a run is running with an open stream
\* closes that stream, and from then on no step handed to the callbacks of the
\* closed stream of a prior run changes currentRun (neither the cleared record
\* nor the record of the new run).
C2_SingleLiveRun ==
  [][/\ (/\ lastEvent'.op = "start"
         /\ currentRun # NoRun
         /\ currentRun.status = "running"
         /\ Live(currentRun.runId))
        => ClosedByClientNext(currentRun.runId)
     /\ (/\ lastEvent'.op = "onUpdate"
         /\ lastEvent'.ch # currentRun.runId
         /\ ClosedByClient(lastEvent'.ch))
        => currentRun' = currentRun]_vars

\* C3 (as claimed): after start, an applied step and stopOptimization(), a step
\* that arrives through the message callback of the stream that stop closed is
\* discarded: currentRun is the same before and after it.
C3_LateMessageDiscarded ==
  [][(/\ lastEvent.op = "stop"
      /\ lastEvent.ch # NoStream
      /\ currentRun # NoRun
      /\ currentRun # NewRun(currentRun.runId, currentRun.mode)
      /\ lastEvent'.op = "onUpdate"
      /\ lastEvent'.ch = lastEvent.ch)
     => currentRun' = currentRun]_vars

\* C4 (as claimed): at most one stream is open that the client has not closed,
\* and it is the stream of currentRun.runId.
C4_AtMostOneLive ==
  /\ Cardinality(LiveStreams) <= 1
  /\ \A c \in LiveStreams : streams[c].runId = currentRun.runId

\* C5 (as claimed): when the stream of a running run delivers a terminal frame
\* that carries an error (done = true and a non-empty error), the record becomes
\* failed and terminal and holds the frame's error.
C5_RemoteFailure ==
  [][(/\ lastEvent'.step # NoStep
      /\ TruthyStr(lastEvent'.step.done)
      /\ TruthyStr(lastEvent'.step.error)
      /\ currentRun # NoRun
      /\ currentRun.status = "running"
      /\ lastEvent'.ch = currentRun.runId)
     => /\ currentRun' # NoRun
        /\ currentRun'.status = "failed"
        /\ currentRun'.error = lastEvent'.step.error
        /\ currentRun'.done = "true"]_vars

\* C6 (as claimed): an applied step never lowers currentRun.iteration; after it
\* the iteration is the maximum of its previous value and the step's iteration.
C6_MonotonicIteration ==
  [][(/\ AppliedToRun
      /\ currentRun.iteration # UndefNum
      /\ lastEvent'.step.iteration # UndefNum)
     => /\ currentRun'.iteration >= currentRun.iteration
        /\ currentRun'.iteration =
             Max(currentRun.iteration, lastEvent'.step.iteration)]_vars

\* C7 (as claimed): an applied step never shortens currentRun.lutHistory and
\* never changes an entry it already holds: the series before the step is a
\* prefix of the series after it.
C7_AppendOnlySeries ==
  [][AppliedToRun => IsPrefix(currentRun.lutHistory, currentRun'.lutHistory)]_vars

\* the steps of the scenario: full steps that carry the series so far
SeriesStep(i) == {FullStep(i, TRUE, d) : d \in {"false", "true"}}

C9_SparseFieldsKept ==
  [][AppliedToRun =>
       /\ (lastEvent'.step.code = UndefStr => currentRun'.code = currentRun.code)
       /\ (lastEvent'.step.reasoning \in {UndefStr, ""}
             => currentRun'.agentReasoning = currentRun.agentReasoning)
       /\ (lastEvent'.step.sim_passed = UndefStr
             => currentRun'.simPassed = currentRun.simPassed)]_vars

\* C10 (as claimed): stopOptimization() on a run whose status is running closes
\* the stream and leaves the run no longer running.
C10_StopLeavesRunning ==
  [][(/\ lastEvent'.op = "stop"
      /\ currentRun # NoRun
      /\ currentRun.status = "running")
     => /\ Live(currentRun.runId) => ClosedByClientNext(currentRun.runId)
        /\ (currentRun' = NoRun \/ currentRun'.status # "running")]_vars

\* C11 (as claimed): when the socket of the stream of a running run reports an
\* error event, the run's status becomes failed.
C11_TransportErrorFails ==
  [][(/\ lastEvent'.op = "onerror"
      /\ currentRun # NoRun
      /\ currentRun.status = "running"
      /\ lastEvent'.ch = currentRun.runId)
     => (currentRun' # NoRun /\ currentRun'.status = "failed")]_vars

\* C12: the socket's error event and its close event are reported on the store's
\* error and isConnected only. The error event sets error to the transport
\* message, the close event leaves error as it was, both set isConnected false,
\* and currentRun is the same record before and after (its status and its own
\* error included), so a running run stays running.
C12_TransportLeavesRun ==
  [][(lastEvent'.op \in {"onerror", "onClose"})
     => /\ currentRun' = currentRun
        /\ isConnected' = FALSE
        /\ (lastEvent'.op = "onerror" => error' = "WebSocket connection error")
        /\ (lastEvent'.op = "onClose" => error' = error)]_vars

\* C12 witness: the socket of a running run that has applied a step reported an
\* error; the store holds it and the record is running with no error of its own
C12_Witness ==
  /\ lastEvent.op = "onerror"
  /\ currentRun # NoRun
  /\ lastEvent.ch = currentRun.runId
  /\ currentRun.status = "running"
  /\ currentRun.iteration > 0
  /\ currentRun.error = NullStr
  /\ error = "WebSocket connection error"
  /\ ~isConnected

C14_CreationFailureFailsRun ==
  [][lastEvent'.op = "rejected"
     => /\ currentRun' # NoRun
        /\ currentRun'.status = "failed"
        /\ TruthyStr(currentRun'.error)]_vars

\* C15 (as claimed): the record that a resolved create-run request creates does
\* not have status running: it is running only once a step has been applied.
C15_StartingBeforeRunning ==
  lastEvent.op = "resolved" => (currentRun # NoRun /\ currentRun.status # "running")

\* C16: status follows the terminal flag. After a step is applied to a running
\* run, the status is completed if the step has done = true and no error, and
\* it is still running if the step has done = false.
C16_StatusFollowsDone ==
  [][(/\ lastEvent'.op = "onUpdate"
      /\ currentRun # NoRun
      /\ currentRun.status = "running")
     => /\ (lastEvent'.step.done = "true" /\ ~TruthyStr(lastEvent'.step.error))
             => currentRun'.status = "completed"
        /\ lastEvent'.step.done = "false"
             => currentRun'.status = "running"]_vars

\* C16 witness: the stream of the run delivered a step with done = true and no
\* error, and the record is completed
C16_Witness ==
  /\ lastEvent.op = "onUpdate"
  /\ lastEvent.step.done = "true"
  /\ ~TruthyStr(lastEvent.step.error)
  /\ currentRun # NoRun
  /\ lastEvent.ch = currentRun.runId
  /\ currentRun.status = "completed"
  /\ currentRun.done = "true"

\* C17: reset() can be called in every state, and directly after it currentRun
\* is null, error is null, isStarting and isConnected are false, _stream is null
\* and the stream that _stream referred to has been closed by the client.
C17_ResetClears ==
  /\ [][lastEvent'.op = "reset"
          => /\ currentRun' = NoRun
             /\ error' = NullStr
             /\ isStarting' = FALSE
             /\ isConnected' = FALSE
             /\ _stream' = NoStream
             /\ _stream # NoStream => ClosedByClientNext(_stream)]_vars
  /\ [](ENABLED reset)

\* C17 witness: reset closed the open stream of a run; the store is as it was
\* constructed and the socket is closing
C17_Witness ==
  /\ lastEvent.op = "reset"
  /\ lastEvent.ch # NoStream
  /\ ~streams[lastEvent.ch].ws
  /\ streams[lastEvent.ch].readyState = "CLOSING"
  /\ currentRun = NoRun
  /\ error = NullStr
  /\ ~isStarting
  /\ ~isConnected
  /\ _stream = NoStream

\* the state of the store and of its streams, without lastEvent
storeVars == <<currentRun, isStarting, isConnected, error, _stream, streams, pending>>

\* C18: stopOptimization() is idempotent. A call directly after a call leaves the
\* store and the streams as the first call left them; and a call when _stream is
\* null, or refers to a stream the client has already closed, changes nothing
\* but _stream (null) and isConnected (false).
C18_StopIdempotent ==
  /\ [][(lastEvent.op = "stop" /\ lastEvent'.op = "stop")
          => UNCHANGED storeVars]_vars
  /\ [][(/\ lastEvent'.op = "stop"
          /\ (_stream = NoStream \/ ClosedByClient(_stream)))
          => /\ UNCHANGED <<currentRun, isStarting, error, streams, pending>>
             /\ _stream' = NoStream
             /\ isConnected' = FALSE]_vars

\* C18 witness: stopOptimization() was called with _stream null, while the stream
\* of the run was already closed by the client and its close event is still to
\* come; the record is still there
C18_Witness ==
  /\ lastEvent.op = "stop"
  /\ lastEvent.ch = NoStream
  /\ currentRun # NoRun
  /\ ~streams[currentRun.runId].ws
  /\ streams[currentRun.runId].readyState = "CLOSING"
  /\ _stream = NoStream
  /\ ~isConnected

\* C19: a frame that does not parse is reported like a transport error and is not
\* reconciled: the store's error is set to the parse failure, isConnected is
\* false, the stream stays as it was and currentRun is unchanged.
C19_GarbageNotReconciled ==
  [][lastEvent'.op = "catch"
     => /\ currentRun' = currentRun
        /\ error' = "Failed to parse server message"
        /\ isConnected' = FALSE
        /\ streams' = streams]_vars

\* C19 witness: the stream of a running run that has applied a step delivered a
\* frame that did not parse
C19_Witness ==
  /\ lastEvent.op = "catch"
  /\ currentRun # NoRun
  /\ lastEvent.ch = currentRun.runId
  /\ currentRun.status = "running"
  /\ currentRun.iteration > 0
  /\ currentRun.error = NullStr
  /\ error = "Failed to parse server message"
  /\ ~isConnected

\* C20 (as claimed): an error-shaped frame ends the stream on the client side: the
\* store's error is the frame's error, the client has closed the stream, and a
\* step that the stream delivers next is not applied to currentRun.
C20_ErrorFrameEndsStream ==
  [][/\ lastEvent'.op = "onError"
        => /\ error' = lastEvent'.step.error
           /\ ClosedByClientNext(lastEvent'.ch)
     /\ (/\ lastEvent.op = "onError"
         /\ lastEvent'.op = "onUpdate"
         /\ lastEvent'.ch = lastEvent.ch)
        => currentRun' = currentRun]_vars

\* C21: no automatic reconnection. A stream is constructed only by the
\* continuation of a start whose create-run request resolved, one per response;
\* no handler of a stream (frame, error event, close event), stop or reset
\* constructs one, and a stream never returns to OPEN nor gets its socket back
\* once it was closed.
C21_NoReconnect ==
  [][/\ Len(streams') >= Len(streams)
     /\ Len(streams') > Len(streams)
          => (lastEvent'.op = "resolved" /\ Len(streams') = Len(streams) + 1)
     /\ \A c \in DOMAIN streams :
          /\ streams'[c].runId = streams[c].runId
          /\ streams[c].readyState # "OPEN" => streams'[c].readyState # "OPEN"
          /\ ~streams[c].ws => ~streams'[c].ws]_vars

\* C21 witness: the only stream reported an error and closed, the operator then
\* called stopOptimization(), and no stream is open
C21_Witness ==
  /\ lastEvent.op = "stop"
  /\ error = "WebSocket connection error"
  /\ Len(streams) = 1
  /\ streams[1].readyState = "CLOSED"
  /\ currentRun # NoRun
  /\ currentRun.status = "running"
  /\ pending = [m \in Modes |-> 0]
  /\ LiveStreams = {}

\* the events of the mounted signal that are not after time t
NotAfter(t) == {i \in DOMAIN props.values : props.values[i].time <= t}
\* the events among them with the latest time
LatestNotAfter(t) ==
  {i \in NotAfter(t) : \A j \in NotAfter(t) : props.values[j].time <= props.values[i].time}

\* C22 (as claimed): the current value rendered for a signal is the value of the
\* last event with time <= currentTime, and it is the sentinel 'X' when no event
\* has time <= currentTime.
C22_ValueAt ==
  rendered # NotRendered
    => IF NotAfter(props.currentTime) = {}
         THEN rendered.currentValue = X
         ELSE \E i \in LatestNotAfter(props.currentTime) :
                rendered.currentValue = props.values[i].value

\* the left and right edge of box i of the rendered signal, in pixels
BoxStart(i) == rendered.boxes[i].x
BoxEnd(i) == rendered.boxes[i].x + rendered.boxes[i].width
\* the earliest event time of the mounted signal
FirstEventTime ==
  CHOOSE t \in {props.values[i].time : i \in DOMAIN props.values} :
    \A i \in DOMAIN props.values : t <= props.values[i].time

\* C23 (as claimed): for every multi-bit event list, in whatever order it is
\* delivered, every box has its start at or before its end, no two boxes
\* overlap, and together the boxes cover the window from the first event time
\* to maxTime.
C23_BoxesPartition ==
  (rendered # NotRendered /\ props.width > 1 /\ props.values # <<>>)
    => /\ \A i \in DOMAIN rendered.boxes : BoxStart(i) <= BoxEnd(i)
       /\ \A i, j \in DOMAIN rendered.boxes :
            i # j => (BoxEnd(i) <= BoxStart(j) \/ BoxEnd(j) <= BoxStart(i))
       /\ \A px \in (FirstEventTime * timeScale)..(props.maxTime * timeScale - 1) :
            \E i \in DOMAIN rendered.boxes : BoxStart(i) <= px /\ px < BoxEnd(i)

\* the events are in time order
TimeSorted(values) ==
  \A i \in DOMAIN values : \A j \in DOMAIN values : i < j => values[i].time <= values[j].time
\* the time at which box i of the mounted signal has to end
NextTimeOf(i) ==
  IF i < Len(props.values) THEN props.values[i + 1].time ELSE props.maxTime

\* C24 (as claimed): for time-sorted multi-bit events there is one box per event,
\* box i starts at the time of event i, ends at the time of event i + 1 (maxTime
\* for the last), and carries the token of event i.
C24_BoxPerEvent ==
  (rendered # NotRendered /\ props.width > 1 /\ TimeSorted(props.values))
    => /\ Len(rendered.boxes) = Len(props.values)
       /\ \A i \in DOMAIN props.values :
            /\ BoxStart(i) = props.values[i].time * timeScale
            /\ BoxEnd(i) = NextTimeOf(i) * timeScale
            /\ rendered.boxes[i].text = props.values[i].value

\* C24 (amended): for time-sorted multi-bit events there is one box per event,
\* box i starts at the time of event i and ends at the time of event i + 1
\* (maxTime for the last), in pixels of timeScale; the token of event i is drawn
\* in the box only when the box is wider than 30 pixels, as '...' when the token
\* has more than 8 characters, and a narrower box carries no text. Events
\* [(0,01),(5,10)] with maxTime 8 give the boxes 0..10 and 10..16 pixels, both
\* without text.
C24_BoxPerEventWide ==
  /\ (rendered # NotRendered /\ props.width > 1 /\ TimeSorted(props.values))
       => /\ Len(rendered.boxes) = Len(props.values)
          /\ \A i \in DOMAIN props.values :
               /\ BoxStart(i) = props.values[i].time * timeScale
               /\ BoxEnd(i) = NextTimeOf(i) * timeScale
               /\ rendered.boxes[i].text =
                    IF (NextTimeOf(i) - props.values[i].time) * timeScale > 30
                      THEN (IF Len(props.values[i].value) > 8
                              THEN <<".", ".", ".">> ELSE props.values[i].value)
                      ELSE NoText
  /\ boxes(2, <<[time |-> 0, value |-> <<"0", "1">>],
                [time |-> 5, value |-> <<"1", "0">>]>>, 8)
       = <<[x |-> 0, width |-> 5 * timeScale, text |-> NoText],
           [x |-> 5 * timeScale, width |-> 3 * timeScale, text |-> NoText]>>

\* C24 witness: a time-sorted multi-bit signal of two events was rendered; its
\* first box is wide enough to show its token and its last box is not
C24_Witness ==
  /\ rendered # NotRendered
  /\ props.width > 1
  /\ Len(props.values) = 2
  /\ props.values[1].time < props.values[2].time
  /\ props.values[2].time < props.maxTime
  /\ rendered.boxes[1].text = props.values[1].value
  /\ rendered.boxes[2].text = NoText
  /\ BoxEnd(1) = BoxStart(2)
  /\ BoxEnd(2) = props.maxTime * timeScale

\* the token holds binary digits only
IsBinary(token) == \A i \in DOMAIN token : token[i] \in {"0", "1"}
\* hexadecimal of n, padded with zeros to the digits of a signal of that width
RECURSIVE PadTo(_, _)
PadTo(digits, n) == IF Len(digits) >= n THEN digits ELSE PadTo(<<"0">> \o digits, n)
PaddedHex(n, width) == PadTo(toString16(n), (width + 3) \div 4)

\* C25 (as claimed): the label of a multi-bit signal is, for a current value made
\* of 0 and 1 only, its hexadecimal zero-padded to the signal width; for a
\* current value that holds an x or z marker it is a string of markers, with no
\* digit converted from the binary prefix.
C25_HexDisplay ==
  (rendered # NotRendered /\ props.width > 1 /\ props.values # <<>>)
    => IF IsBinary(rendered.currentValue)
         THEN rendered.label =
                <<"0", "x">> \o PaddedHex(parseInt(rendered.currentValue), props.width)
         ELSE \A i \in DOMAIN rendered.label :
                rendered.label[i] \in {"x", "z", "X", "Z"}

\* the one of the latest events not after t that comes last in input order
LastInInputOrder(t) ==
  CHOOSE i \in LatestNotAfter(t) : \A j \in LatestNotAfter(t) : j <= i

\* C26: duplicate events at the same time. When some event has time <=
\* currentTime, the current value is the value of the event that, among the
\* events of the latest such time, comes last in input order: of several events
\* with the same time the last one wins, at that time and until the next later
\* event.
C26_LastDuplicateWins ==
  (rendered # NotRendered /\ NotAfter(props.currentTime) # {})
    => rendered.currentValue = props.values[LastInInputOrder(props.currentTime)].value

\* C26 witness: two events of the same time and different values, not in time
\* order with the rest, are the latest events at currentTime (which is after
\* their time), and the rendered value is the later one's
C26_Witness ==
  /\ rendered # NotRendered
  /\ Len(props.values) = 3
  /\ props.values[1].time = props.values[3].time
  /\ props.values[1].value # props.values[3].value
  /\ props.values[2].time < props.values[1].time
  /\ props.currentTime > props.values[3].time
  /\ rendered.currentValue = props.values[3].value

\* the event lists that hold the events of values in another order
PermutationsOf(values) ==
  {[i \in DOMAIN values |-> values[f[i]]] :
     f \in {g \in [DOMAIN values -> DOMAIN values] :
              \A i, j \in DOMAIN values : i # j => g[i] # g[j]}}
DistinctTimes(values) ==
  \A i, j \in DOMAIN values : i # j => values[i].time # values[j].time

\* C27: defensive sort. For events with pairwise distinct times, every
\* permutation of the event list gives the rendered current value, at every
\* current time of the window, and the rendered single-bit path.
C27_OrderIndependent ==
  (rendered # NotRendered /\ DistinctTimes(props.values))
    => \A permuted \in PermutationsOf(props.values) :
         /\ currentValue(permuted, props.currentTime) = rendered.currentValue
         /\ pathD(props.width, permuted, props.maxTime) = rendered.pathD

\* C27 witness: a single-bit signal of three events with distinct times,
\* delivered latest first, was rendered with a path that has a transition
C27_Witness ==
  /\ rendered # NotRendered
  /\ props.width = 1
  /\ Len(props.values) = 3
  /\ props.values[1].time > props.values[2].time
  /\ props.values[2].time > props.values[3].time
  /\ props.values[1].value # props.values[2].value
  /\ Len(rendered.pathD) > 4
  /\ rendered.pathD[1] = [cmd |-> "M", x |-> props.values[3].time * timeScale,
                          y |-> levelY(props.values[3].value)]
  /\ rendered.currentValue = currentValue(sortByTime(props.values), props.currentTime)

\* the series of the round trip: [(0,0),(10,1),(20,0)]
RoundTripSeries ==
  <<[time |-> 0, value |-> <<"0">>], [time |-> 10, value |-> <<"1">>],
    [time |-> 20, value |-> <<"0">>]>>

\* C28: waveform round trip. For a series that has an event at time 0, the
\* current value at every currentTime of the window 0 .. maxTime is the value of
\* the last event with time <= currentTime, and every time beyond maxTime gives
\* the value at maxTime; for [(0,0),(10,1),(20,0)] and maxTime 30 the values at
\* 5, 10, 25, 30 are 0, 1, 0, 0.
C28_RoundTrip ==
  /\ (rendered # NotRendered /\ \E i \in DOMAIN props.values : props.values[i].time = 0)
       => /\ rendered.currentValue =
               props.values[LastInInputOrder(props.currentTime)].value
          /\ \A t \in (props.maxTime + 1)..(props.maxTime + TimeStep) :
               currentValue(props.values, t) = currentValue(props.values, props.maxTime)
  /\ currentValue(RoundTripSeries, 5) = <<"0">>
  /\ currentValue(RoundTripSeries, 10) = <<"1">>
  /\ currentValue(RoundTripSeries, 25) = <<"0">>
  /\ currentValue(RoundTripSeries, 30) = <<"0">>

\* C28 witness: a single-bit series of three events from time 0 on, with a
\* change at each, was rendered with currentTime between its last event and
\* maxTime, and shows the value of the last event
C28_Witness ==
  /\ rendered # NotRendered
  /\ props.width = 1
  /\ Len(props.values) = 3
  /\ props.values[1] = [time |-> 0, value |-> <<"0">>]
  /\ props.values[2].time > 0
  /\ props.values[2].value = <<"1">>
  /\ props.values[3].time > props.values[2].time
  /\ props.values[3].value = <<"0">>
  /\ props.currentTime > props.values[3].time
  /\ props.currentTime < props.maxTime
  /\ rendered.currentValue = <<"0">>

\* C29: empty-series safety. For an empty event list the current value is the
\* sentinel 'X' at every currentTime, the single-bit path is empty and there
\* is no box; the render yields a result for every window.
C29_EmptySeries ==
  (rendered # NotRendered /\ props.values = <<>>)
    => /\ rendered.currentValue = X
       /\ rendered.pathD = <<>>
       /\ rendered.boxes = <<>>
       /\ rendered.label = IF props.width > 1 THEN <<"0", "x", "N", "A", "N">> ELSE X

\* C29 witness: a single-bit signal without events was rendered at a
\* currentTime after 0
C29_Witness ==
  /\ rendered # NotRendered
  /\ props.width = 1
  /\ props.values = <<>>
  /\ props.currentTime > 0
  /\ rendered.currentValue = X
  /\ rendered.pathD = <<>>

\* C30: cursor bound. In every reachable state of the waveform store, after any
\* sequence of runSimulationWithVcd (success, error response or rejection),
\* setCurrentTime(t) and clearWaveform, 0 <= currentTime <= maxTime, and maxTime
\* is at least the time of every event of every stored signal.
C30_CursorBound ==
  /\ 0 <= waveform.currentTime
  /\ waveform.currentTime <= waveform.maxTime
  /\ \A s \in 1..Len(waveform.signals) :
       \A e \in 1..Len(waveform.signals[s].values) :
         waveform.signals[s].values[e].time <= waveform.maxTime

\* C30 witness: a capture of two signals whose latest event is not the last one
\* listed is stored, the cursor was moved to the end of the window, and a later
\* capture was rejected
C30_Witness ==
  /\ Len(waveform.signals) = 2
  /\ Len(waveform.signals[1].values) = 2
  /\ waveform.signals[1].values[1].time > waveform.signals[1].values[2].time
  /\ waveform.signals[1].values[1].time > waveform.signals[2].values[1].time
  /\ waveform.maxTime = waveform.signals[1].values[1].time
  /\ waveform.currentTime = waveform.maxTime
  /\ waveform.error = "Network error"
  /\ vcdPending = <<>>

\* result.signals || []
SignalsOf(result) == IF result.signals # UndefSignals THEN result.signals ELSE <<>>

\* C31: the capture state is replaced wholesale, never merged. After a
\* successful capture the stored signals are exactly the signals of that
\* response, with currentTime 0; after clearWaveform the state is the initial
\* empty state; a capture that returns an error or rejects leaves every field
\* but error and isLoading (signals, maxTime and currentTime among them) as it
\* was.
C31_Wholesale ==
  [][/\ \A result \in VcdResults :
          (\E i \in DOMAIN vcdPending : VcdResolved(i, result))
            => IF TruthyStr(result.error)
                 THEN waveform' = [waveform EXCEPT !.isLoading = FALSE,
                                                   !.error = result.error]
                 ELSE /\ waveform'.signals = SignalsOf(result)
                      /\ waveform'.currentTime = 0
                      /\ waveform'.maxTime = maxTimeOfSignals(SignalsOf(result), 1, 0)
     /\ \A i \in DOMAIN vcdPending :
          VcdRejected(i)
            => /\ waveform'.error # NullStr
               /\ waveform' = [waveform EXCEPT !.isLoading = FALSE,
                                                !.error = waveform'.error]
     /\ clearWaveform => waveform' = initialWaveformState
     /\ (/\ Len(vcdPending') = Len(vcdPending)
         /\ waveform' # [waveform EXCEPT !.currentTime = waveform'.currentTime])
          => waveform' = initialWaveformState]_vars

\* C31 witness: a capture of two signals is stored with the cursor moved off 0,
\* and the response of a later capture reported an error
C31_Witness ==
  /\ Len(waveform.signals) = 2
  /\ waveform.maxTime > 0
  /\ waveform.currentTime > 0
  /\ waveform.error = "sim failed"
  /\ ~waveform.isLoading
  /\ vcdPending = <<>>

\* the capture the store holds: the fields a response stores apart from the
\* cursor, isLoading and error
Capture(w) == <<w.signals, w.vcdPath, w.simPassed, w.maxTime>>

\* C36 (as claimed): with two calls of runSimulationWithVcd in flight, the
\* capture ends as the result of the call issued later whatever the order of the
\* responses (the response of a call that a later call has overtaken leaves the
\* capture as it is); isLoading stays true while a call is still in flight after
\* a response; and the response of a call that was in flight when clearWaveform
\* ran leaves the cleared capture as it is.
C36_LaterRequestWins ==
  [][/\ \A i \in DOMAIN vcdPending : \A result \in VcdResults :
          (VcdResolved(i, result) /\ vcdPending[i].overtaken)
            => Capture(waveform') = Capture(waveform)
     /\ (Len(vcdPending') < Len(vcdPending) /\ Len(vcdPending') > 0)
          => waveform'.isLoading
     /\ \A i \in DOMAIN vcdPending : \A result \in VcdResults :
          (VcdResolved(i, result) /\ vcdPending[i].cleared)
            => Capture(waveform') = Capture(waveform)]_vars

\* C32 (as claimed): when the close callback of a stream the client closed runs
\* while another stream is stored, _stream still refers to the stored stream;
\* and a stopOptimization() or reset() issued while the stream of currentRun is
\* open closes that stream.
C32_StopDetachesCurrentRun ==
  [][/\ (/\ lastEvent'.op = "onClose"
         /\ ClosedByClient(lastEvent'.ch)
         /\ _stream # NoStream
         /\ _stream # lastEvent'.ch)
          => _stream' = _stream
     /\ (/\ lastEvent'.op \in {"stop", "reset"}
         /\ currentRun # NoRun
         /\ Live(currentRun.runId))
          => ClosedByClientNext(currentRun.runId)]_vars

\* C33 (as claimed): a reset or stop issued while the create-run request of a
\* start is pending is not undone. When the request resolves right after it, no
\* run record is created and no stream is opened: currentRun stays null and
\* streams and _stream stay as they are.
C33_ResetNotUndone ==
  [][(/\ lastEvent.op \in {"stop", "reset"}
      /\ currentRun = NoRun
      /\ lastEvent'.op = "resolved")
     => /\ currentRun' = NoRun
        /\ streams' = streams
        /\ _stream' = _stream]_vars

\* C34 (as claimed): in every reachable state, isConnected = true implies that
\* _stream is not null and refers to a stream the client has not closed.
C34_ConnectedHasStream ==
  isConnected => (_stream # NoStream /\ ~ClosedByClient(_stream))

\* C35 (as claimed): in every reachable state, isStarting is true while a
\* create-run request issued by startOptimization or startTestGen is in flight.
C35_StartingWhilePending ==
  (\E mode \in Modes : pending[mode] > 0) => isStarting

\* the reasoning entries of the chat log
ReasoningEntries == {i \in DOMAIN messages : messages[i].role = "assistant"}

\* C37 (as claimed): within one run the chat log holds at most one reasoning
\* entry per iteration number, in strictly increasing order of iteration; an
\* effect that finds an iteration not above the one it tracks (or none) adds no
\* reasoning entry; and once the effect has run for currentRun = null the
\* tracked iteration is -1 again.
C37_OneEntryPerIteration ==
  /\ [](\A i, j \in ReasoningEntries :
          (i < j /\ messages[i].run = messages[j].run)
            => messages[i].iteration < messages[j].iteration)
  /\ []((currentRun = NoRun /\ EffectsFlushed) => lastIterationRef = -1)
  /\ [][(/\ ChatEffect
          /\ currentRun # NoRun
          /\ (currentRun.iteration = UndefNum
                \/ currentRun.iteration <= lastIterationRef))
         => /\ \A i \in DOMAIN messages' :
                 messages'[i].role = "assistant" => i \in ReasoningEntries
            /\ lastIterationRef' = lastIterationRef]_vars

\* C38 (as claimed): after cancelStreaming() has returned, the timer of a stream
\* started before it appends no chunk to streamingContent and no message to
\* messages.
C38_CancelStopsStreams ==
  [][\A k \in DOMAIN intervals :
       (Tick(k) /\ intervals[k].stale)
         => /\ chatStore'.streamingContent = chatStore.streamingContent
            /\ chatStore'.messages = chatStore.messages]_vars

====
